---- MODULE Spec2Model ----
(***************************************************************************)
(* Model of the simulated Ricart-Agrawala file system: N client goroutines *)
(* each run OpenFile, WriteFile, ReadFile, CloseFile on "file1.txt", the   *)
(* asynchronous SendRequest goroutines they spawn, and the four mutex      *)
(* domains of DistributedFileSystem.  Every mutex acquisition is a step of *)
(* its own, so the interleavings of the goroutines are those of the code.  *)
(***************************************************************************)
EXTENDS Integers, Sequences, FiniteSets, TLC

\* Number of clients typed in at start-up (fmt.Scanln(&numClients)).
NumClients == 2

\* Client ids are clientID + 1 for the loop indices 0..numClients-1.
Clients == 1 .. NumClients

\* Every client targets the same file name.
FileNames == {"file1.txt"}

FileName(c) == "file1.txt"

\* The nil *File returned by OpenFile on a load failure.
NoHandle == "nil"

\* Content of the file on disk before the run.
InitialContent == 0

\* What a failed ioutil.WriteFile may leave on disk: a truncated or partial file.
PartialContent == -1

\* fmt.Sprintf("Content written by Client %d", client.ID): one content per id.
ContentOf(c) == c

\* Holders of a sync.Mutex.
Free == <<"free", 0>>

Cl(c) == <<"client", c>>

Task(t) == <<"task", t>>

VARIABLES
    pc,                \* position of each client goroutine
    handle,            \* the local variable `file` of each client goroutine
    idx,               \* loop index i of the range loops in ReadFile / WriteFile
    timestamp,         \* local variable `timestamp` of the call in progress
    Files,             \* fs.Files: name -> [IsOpen, Content, Mutex]
    FilesMutex,
    Requests,          \* fs.Requests
    RequestMutex,
    Acknowledged,      \* fs.Acknowledged; slot i of the Go slice is Acknowledged[i + 1]
    AcknowledgeMutex,
    Timestamps,        \* fs.Timestamps
    TimestampMutex,
    LogFile,           \* lines written to file_access.log
    DeferredArray,     \* fs.DeferredArray
    disk,              \* the storage: name -> content
    tasks,             \* spawned SendRequest goroutines not yet in their critical section, per target id
    stdout,            \* lines printed by the gate: "All acknowledgments received" and "Invalid client ID ..."
    observed,          \* the content each client's ReadFile printed
    returns,           \* history: the ReadFile / WriteFile calls in the order they released RequestMutex
    sent,              \* history: `go fs.SendRequest` statements executed by each client's current call
    polls,             \* history: fs.ReceiveAcknowledge() calls made by each client's current call
    heap,              \* number of File objects allocated so far; the n-th one is pointer n
    ptr,               \* the *File held in `file` by each client's OpenFile and goroutine (0: nil)
    panicked           \* a goroutine hit an index-out-of-range runtime panic

vars == << pc, handle, idx, timestamp, Files, FilesMutex, Requests, RequestMutex,
           Acknowledged, AcknowledgeMutex, Timestamps, TimestampMutex, LogFile,
           DeferredArray, disk, tasks, stdout, observed, returns, sent, polls,
           heap, ptr, panicked >>

clientVars == << pc, handle, idx, timestamp >>

fileVars == << Files, FilesMutex, disk >>

ledgerVars == << Requests, Timestamps, TimestampMutex >>

gateVars == << Acknowledged, AcknowledgeMutex, tasks, stdout >>

auditVars == << LogFile, DeferredArray >>

callVars == << sent, polls >>

heapVars == << heap, ptr >>

-----------------------------------------------------------------------------
(* Helpers *)

\* make([]bool, n)
MakeBools(n) == [i \in 1 .. n |-> FALSE]

\* The loop of ReceiveAcknowledge: no slot of the slice is false.
AllTrue(ack) == \A i \in 1 .. Len(ack) : ack[i]

\* Faulty variant: the index test admits the length itself.
InBoundsInclusive(id, ack) == id <= Len(ack)

\* The index test of SendRequest.
InBounds(id, ack) == id < Len(ack)

\* Faulty variant: client id k is stored at slot k - 1.
SetSlotShifted(ack, id) == [ack EXCEPT ![id] = TRUE]

\* fs.Acknowledged[id] = true on a slice known to be long enough.
SetSlot(ack, id) == [ack EXCEPT ![id + 1] = TRUE]

\* Faulty variant: the caller's own entries are notified and polled as well.
IsPeerOrSelf(req, c) == TRUE

\* The test of both range loops: the entry belongs to another client.
IsPeer(req, c) == req.ClientID # c

\* Faulty variant: the clock hands out the current length, starting at 0.
NextTimestampStale(ts) == Len(ts)

\* len(fs.Timestamps) + 1
NextTimestamp(ts) == Len(ts) + 1

\* A mutex can be taken when nobody holds it.
CanLock(m) == m = Free

Goto(c, to) == pc' = [pc EXCEPT ![c] = to]

Running == ~panicked


-----------------------------------------------------------------------------
(* OpenFile and CloseFile *)

\* Faulty variant: the lookup starts without waiting for FilesMutex.
OpenFile_LockNoWait(c) ==
    /\ Running /\ pc[c] = "open"
    /\ FilesMutex' = Cl(c)
    /\ Goto(c, "o_lookup")
    /\ UNCHANGED << handle, idx, timestamp, Files, disk, ledgerVars, RequestMutex,
                    gateVars, auditVars, observed, returns, panicked,
                    callVars, heapVars >>

\* fs.FilesMutex.Lock()
OpenFile_Lock(c) ==
    /\ Running /\ pc[c] = "open"
    /\ CanLock(FilesMutex)
    /\ FilesMutex' = Cl(c)
    /\ Goto(c, "o_lookup")
    /\ UNCHANGED << handle, idx, timestamp, Files, disk, ledgerVars, RequestMutex,
                    gateVars, auditVars, observed, returns, panicked,
                    callVars, heapVars >>

\* file, ok := fs.Files[fileName] with !ok: the name is not registered.
OpenFile_Miss(c) ==
    /\ Running /\ pc[c] = "o_lookup"
    /\ FileName(c) \notin DOMAIN Files
    /\ Goto(c, "o_load")
    /\ UNCHANGED << handle, idx, timestamp, fileVars, ledgerVars, RequestMutex,
                    gateVars, auditVars, observed, returns, panicked,
                    callVars, heapVars >>

\* Faulty variant: the handle is registered before the load is checked.
OpenFile_LoadFailRegistered(c) ==
    /\ Running /\ pc[c] = "o_load"
    /\ heap' = heap + 1
    /\ Files' = (FileName(c) :>
                    [IsOpen |-> TRUE, Content |-> InitialContent, Mutex |-> Free,
                     Ptr |-> heap + 1]) @@ Files
    /\ handle' = [handle EXCEPT ![c] = NoHandle]
    /\ FilesMutex' = Free
    /\ Goto(c, "done")
    /\ UNCHANGED << idx, timestamp, disk, ledgerVars, RequestMutex,
                    gateVars, auditVars, observed, returns, panicked,
                    callVars, ptr >>

\* ioutil.ReadFile fails: return nil, the deferred Unlock runs, and the
\* goroutine skips its `if file != nil` block.
OpenFile_LoadFail(c) ==
    /\ Running /\ pc[c] = "o_load"
    /\ handle' = [handle EXCEPT ![c] = NoHandle]
    /\ FilesMutex' = Free
    /\ Goto(c, "done")
    /\ UNCHANGED << idx, timestamp, Files, disk, ledgerVars, RequestMutex,
                    gateVars, auditVars, observed, returns, panicked,
                    callVars, heapVars >>

\* The load succeeds: a new File is stored under the name.
OpenFile_Create(c) ==
    /\ Running /\ pc[c] = "o_load"
    /\ heap' = heap + 1
    /\ Files' = (FileName(c) :>
                    [IsOpen |-> TRUE, Content |-> disk[FileName(c)], Mutex |-> Free,
                     Ptr |-> heap + 1]) @@ Files
    /\ Goto(c, "o_ret")
    /\ UNCHANGED << handle, idx, timestamp, FilesMutex, disk, ledgerVars, RequestMutex,
                    gateVars, auditVars, observed, returns, panicked,
                    callVars >>
    /\ ptr' = [ptr EXCEPT ![c] = heap + 1]

\* ok: file.Mutex.Lock()
OpenFile_Existing(c) ==
    /\ Running /\ pc[c] = "o_lookup"
    /\ FileName(c) \in DOMAIN Files
    /\ CanLock(Files[FileName(c)].Mutex)
    /\ Files' = [Files EXCEPT ![FileName(c)].Mutex = Cl(c)]
    /\ Goto(c, "o_set")
    /\ UNCHANGED << handle, idx, timestamp, FilesMutex, disk, ledgerVars, RequestMutex,
                    gateVars, auditVars, observed, returns, panicked,
                    callVars, heap >>
    /\ ptr' = [ptr EXCEPT ![c] = Files[FileName(c)].Ptr]

\* file.IsOpen = true; file.Mutex.Unlock()
OpenFile_SetOpen(c) ==
    /\ Running /\ pc[c] = "o_set"
    /\ Files' = [Files EXCEPT ![FileName(c)].IsOpen = TRUE, ![FileName(c)].Mutex = Free]
    /\ Goto(c, "o_ret")
    /\ UNCHANGED << handle, idx, timestamp, FilesMutex, disk, ledgerVars, RequestMutex,
                    gateVars, auditVars, observed, returns, panicked,
                    callVars, heapVars >>

\* return file, the deferred fs.FilesMutex.Unlock() runs
OpenFile_Return(c) ==
    /\ Running /\ pc[c] = "o_ret"
    /\ FilesMutex' = Free
    /\ handle' = [handle EXCEPT ![c] = FileName(c)]
    /\ Goto(c, "w_lock")
    /\ UNCHANGED << idx, timestamp, Files, disk, ledgerVars, RequestMutex,
                    gateVars, auditVars, observed, returns, panicked,
                    callVars, heapVars >>

\* file.Mutex.Lock()
CloseFile_Lock(c) ==
    /\ Running /\ pc[c] = "c_lock"
    /\ CanLock(Files[handle[c]].Mutex)
    /\ Files' = [Files EXCEPT ![handle[c]].Mutex = Cl(c)]
    /\ Goto(c, "c_set")
    /\ UNCHANGED << handle, idx, timestamp, FilesMutex, disk, ledgerVars, RequestMutex,
                    gateVars, auditVars, observed, returns, panicked,
                    callVars, heapVars >>

\* Faulty variant: CloseFile releases the handle's Mutex and leaves the flag.
CloseFile_Unlock(c) ==
    /\ Running /\ pc[c] = "c_set"
    /\ Files' = [Files EXCEPT ![handle[c]].Mutex = Free]
    /\ Goto(c, "done")
    /\ UNCHANGED << handle, idx, timestamp, FilesMutex, disk, ledgerVars, RequestMutex,
                    gateVars, auditVars, observed, returns, panicked,
                    callVars, heapVars >>

\* file.IsOpen = false; file.Mutex.Unlock(); the goroutine ends
CloseFile_SetClosed(c) ==
    /\ Running /\ pc[c] = "c_set"
    /\ Files' = [Files EXCEPT ![handle[c]].IsOpen = FALSE, ![handle[c]].Mutex = Free]
    /\ Goto(c, "done")
    /\ UNCHANGED << handle, idx, timestamp, FilesMutex, disk, ledgerVars, RequestMutex,
                    gateVars, auditVars, observed, returns, panicked,
                    callVars, heapVars >>

-----------------------------------------------------------------------------
(* The admission protocol shared by ReadFile and WriteFile.  Each step takes *)
(* the caller, the position it starts from and the position it leads to.     *)

\* Faulty variant: the call enters without waiting for RequestMutex.
LockRequestNoWait(c, from, to) ==
    /\ Running /\ pc[c] = from
    /\ RequestMutex' = Cl(c)
    /\ Goto(c, to)
    /\ UNCHANGED << handle, idx, timestamp, fileVars, ledgerVars, gateVars,
                    auditVars, observed, returns, panicked,
                    callVars, heapVars >>

\* fs.RequestMutex.Lock()
LockRequest(c, from, to) ==
    /\ Running /\ pc[c] = from
    /\ CanLock(RequestMutex)
    /\ RequestMutex' = Cl(c)
    /\ Goto(c, to)
    /\ UNCHANGED << handle, idx, timestamp, fileVars, ledgerVars, gateVars,
                    auditVars, observed, returns, panicked,
                    callVars, heapVars >>

\* fs.TimestampMutex.Lock()
LockTimestamp(c, from, to) ==
    /\ Running /\ pc[c] = from
    /\ CanLock(TimestampMutex)
    /\ TimestampMutex' = Cl(c)
    /\ Goto(c, to)
    /\ UNCHANGED << handle, idx, timestamp, fileVars, Requests, Timestamps, RequestMutex,
                    gateVars, auditVars, observed, returns, panicked,
                    callVars, heapVars >>

\* Faulty variant: the call keeps TimestampMutex after taking its timestamp.
AllocateKeepsLock(c, from, to) ==
    /\ Running /\ pc[c] = from
    /\ timestamp' = [timestamp EXCEPT ![c] = NextTimestamp(Timestamps)]
    /\ Timestamps' = Append(Timestamps, NextTimestamp(Timestamps))
    /\ Goto(c, to)
    /\ UNCHANGED << handle, idx, fileVars, Requests, RequestMutex, TimestampMutex,
                    gateVars, auditVars, observed, returns, panicked,
                    callVars, heapVars >>

\* timestamp := len(fs.Timestamps) + 1; append; fs.TimestampMutex.Unlock()
Allocate(c, from, to) ==
    /\ Running /\ pc[c] = from
    /\ timestamp' = [timestamp EXCEPT ![c] = NextTimestamp(Timestamps)]
    /\ Timestamps' = Append(Timestamps, NextTimestamp(Timestamps))
    /\ TimestampMutex' = Free
    /\ Goto(c, to)
    /\ UNCHANGED << handle, idx, fileVars, Requests, RequestMutex,
                    gateVars, auditVars, observed, returns, panicked,
                    callVars, heapVars >>

\* Faulty variant: the ledger keeps only the request of the current call.
AppendRequestPruned(c, from, to) ==
    /\ Running /\ pc[c] = from
    /\ Requests' = << [ClientID |-> c, File |-> handle[c], Timestamp |-> timestamp[c]] >>
    /\ idx' = [idx EXCEPT ![c] = 0]
    /\ Goto(c, to)
    /\ UNCHANGED << handle, timestamp, fileVars, Timestamps, TimestampMutex, RequestMutex,
                    gateVars, auditVars, observed, returns, panicked, heapVars >>
    /\ sent' = [sent EXCEPT ![c] = 0]
    /\ polls' = [polls EXCEPT ![c] = 0]

\* request := &Request{clientID, file, timestamp}; fs.Requests = append(fs.Requests, request)
AppendRequest(c, from, to) ==
    /\ Running /\ pc[c] = from
    /\ Requests' = Append(Requests,
                     [ClientID |-> c, File |-> handle[c], Timestamp |-> timestamp[c]])
    /\ idx' = [idx EXCEPT ![c] = 0]
    /\ Goto(c, to)
    /\ UNCHANGED << handle, timestamp, fileVars, Timestamps, TimestampMutex, RequestMutex,
                    gateVars, auditVars, observed, returns, panicked, heapVars >>
    /\ sent' = [sent EXCEPT ![c] = 0]
    /\ polls' = [polls EXCEPT ![c] = 0]

\* After iteration idx[c] of a range loop over fs.Requests: the next iteration,
\* or the statement after the loop.
LoopNext(c, again, to) ==
    IF idx[c] + 1 < Len(Requests)
    THEN /\ idx' = [idx EXCEPT ![c] = idx[c] + 1]
         /\ Goto(c, again)
    ELSE /\ idx' = [idx EXCEPT ![c] = 0]
         /\ Goto(c, to)

\* One iteration of the first loop: go fs.SendRequest(clientID, fs.Requests[i])
\* for an entry of another client.
Broadcast(c, from, to) ==
    /\ Running /\ pc[c] = from
    /\ LET req == Requests[idx[c] + 1] IN
         tasks' = IF IsPeer(req, c)
                  THEN [tasks EXCEPT ![req.ClientID] = @ + 1]
                  ELSE tasks
    /\ sent' = IF IsPeer(Requests[idx[c] + 1], c) THEN [sent EXCEPT ![c] = @ + 1] ELSE sent
    /\ LoopNext(c, from, to)
    /\ UNCHANGED << handle, timestamp, fileVars, ledgerVars, RequestMutex, Acknowledged,
                    AcknowledgeMutex, stdout, auditVars, observed, returns, panicked,
                    polls, heapVars >>

\* One iteration of the second loop for an entry of the caller itself: nothing.
PollSkip(c, from, to) ==
    /\ Running /\ pc[c] = from
    /\ ~IsPeer(Requests[idx[c] + 1], c)
    /\ LoopNext(c, from, to)
    /\ UNCHANGED << handle, timestamp, fileVars, ledgerVars, RequestMutex, gateVars,
                    auditVars, observed, returns, panicked,
                    callVars, heapVars >>

\* One iteration of the second loop for an entry of another client:
\* fs.ReceiveAcknowledge() begins with fs.AcknowledgeMutex.Lock()
PollLock(c, from, to) ==
    /\ Running /\ pc[c] = from
    /\ IsPeer(Requests[idx[c] + 1], c)
    /\ CanLock(AcknowledgeMutex)
    /\ AcknowledgeMutex' = Cl(c)
    /\ Goto(c, to)
    /\ UNCHANGED << handle, idx, timestamp, fileVars, ledgerVars, RequestMutex, Acknowledged,
                    tasks, stdout, auditVars, observed, returns, panicked,
                    callVars, heapVars >>

\* Faulty variant: the slice is cleared at its old length.
GateAfterPollSameSize(ack, nreq) == IF AllTrue(ack) THEN MakeBools(Len(ack)) ELSE ack

\* The slice ReceiveAcknowledge leaves behind: unchanged when a slot is false,
\* otherwise make([]bool, len(fs.Requests)).
GateAfterPoll(ack, nreq) == IF AllTrue(ack) THEN MakeBools(nreq) ELSE ack

\* Faulty variant: the call waits under the mutex until the gate is full.
ReceiveAcknowledgeWait(c, from, again, to) ==
    /\ Running /\ pc[c] = from
    /\ AllTrue(Acknowledged)
    /\ Acknowledged' = MakeBools(Len(Requests))
    /\ stdout' = [stdout EXCEPT !.allAcknowledged = @ + 1]
    /\ AcknowledgeMutex' = Free
    /\ LoopNext(c, again, to)
    /\ UNCHANGED << handle, timestamp, fileVars, ledgerVars, RequestMutex, tasks,
                    auditVars, observed, returns, panicked,
                    sent, heapVars >>
    /\ polls' = [polls EXCEPT ![c] = @ + 1]

\* The body of ReceiveAcknowledge under the mutex, and its deferred Unlock.
ReceiveAcknowledge(c, from, again, to) ==
    /\ Running /\ pc[c] = from
    /\ Acknowledged' = GateAfterPoll(Acknowledged, Len(Requests))
    /\ stdout' = IF AllTrue(Acknowledged)
                 THEN [stdout EXCEPT !.allAcknowledged = @ + 1]
                 ELSE stdout
    /\ AcknowledgeMutex' = Free
    /\ LoopNext(c, again, to)
    /\ UNCHANGED << handle, timestamp, fileVars, ledgerVars, RequestMutex, tasks,
                    auditVars, observed, returns, panicked,
                    sent, heapVars >>
    /\ polls' = [polls EXCEPT ![c] = @ + 1]

\* Faulty variant: the entry carries the clock's next value, not the call's timestamp.
LogRequestClock(c, action, from, to) ==
    /\ Running /\ pc[c] = from
    /\ LogFile' = Append(LogFile, [ClientID |-> c, Action |-> action,
                                   FileName |-> handle[c],
                                   Timestamp |-> Len(Timestamps) + 1])
    /\ Goto(c, to)
    /\ UNCHANGED << handle, idx, timestamp, fileVars, ledgerVars, RequestMutex, gateVars,
                    DeferredArray, observed, returns, panicked,
                    callVars, heapVars >>

\* fs.LogRequest(clientID, action, file.Name, timestamp)
LogRequest(c, action, from, to) ==
    /\ Running /\ pc[c] = from
    /\ LogFile' = Append(LogFile, [ClientID |-> c, Action |-> action,
                                   FileName |-> handle[c], Timestamp |-> timestamp[c]])
    /\ Goto(c, to)
    /\ UNCHANGED << handle, idx, timestamp, fileVars, ledgerVars, RequestMutex, gateVars,
                    DeferredArray, observed, returns, panicked,
                    callVars, heapVars >>

\* Faulty variant: the label is put at the front of the list.
AddDeferredOperationFront(c, action, from, to) ==
    /\ Running /\ pc[c] = from
    /\ DeferredArray' = << [Action |-> action, ClientID |-> c] >> \o DeferredArray
    /\ Goto(c, to)
    /\ UNCHANGED << handle, idx, timestamp, fileVars, ledgerVars, RequestMutex, gateVars,
                    LogFile, observed, returns, panicked,
                    callVars, heapVars >>

\* fs.AddDeferredOperation(fmt.Sprintf("<action> by Client %d", clientID))
AddDeferredOperation(c, action, from, to) ==
    /\ Running /\ pc[c] = from
    /\ DeferredArray' = Append(DeferredArray, [Action |-> action, ClientID |-> c])
    /\ Goto(c, to)
    /\ UNCHANGED << handle, idx, timestamp, fileVars, ledgerVars, RequestMutex, gateVars,
                    LogFile, observed, returns, panicked,
                    callVars, heapVars >>

\* The entry of the history for a call that returns.
Returned(c, action, ok, content) ==
    [ClientID |-> c, Action |-> action, Ok |-> ok,
     Timestamp |-> timestamp[c], Content |-> content]

\* The function returns: the deferred fs.RequestMutex.Unlock() runs.
Return(c, action, content, from, to) ==
    /\ Running /\ pc[c] = from
    /\ RequestMutex' = Free
    /\ returns' = Append(returns, Returned(c, action, TRUE, content))
    /\ timestamp' = [timestamp EXCEPT ![c] = 0]
    /\ Goto(c, to)
    /\ UNCHANGED << handle, idx, fileVars, ledgerVars, gateVars, auditVars,
                    observed, panicked,
                    callVars, heapVars >>

-----------------------------------------------------------------------------
(* WriteFile *)

WriteFile_Lock(c) == LockRequest(c, "w_lock", "w_tslock")

WriteFile_LockTimestamp(c) == LockTimestamp(c, "w_tslock", "w_ts")

WriteFile_Allocate(c) == Allocate(c, "w_ts", "w_append")

WriteFile_Append(c) == AppendRequest(c, "w_append", "w_send")

WriteFile_Broadcast(c) == Broadcast(c, "w_send", "w_recv")

WriteFile_PollSkip(c) == PollSkip(c, "w_recv", "w_flock")

WriteFile_PollLock(c) == PollLock(c, "w_recv", "w_ack")

WriteFile_ReceiveAcknowledge(c) == ReceiveAcknowledge(c, "w_ack", "w_recv", "w_flock")

\* Faulty variant: the write goes ahead without taking the handle's Mutex.
WriteFile_LockFileSkipped(c) ==
    /\ Running /\ pc[c] = "w_flock"
    /\ Goto(c, "w_set")
    /\ UNCHANGED << handle, idx, timestamp, fileVars, ledgerVars, RequestMutex,
                    gateVars, auditVars, observed, returns, panicked,
                    callVars, heapVars >>

\* file.Mutex.Lock()
WriteFile_LockFile(c) ==
    /\ Running /\ pc[c] = "w_flock"
    /\ CanLock(Files[handle[c]].Mutex)
    /\ Files' = [Files EXCEPT ![handle[c]].Mutex = Cl(c)]
    /\ Goto(c, "w_set")
    /\ UNCHANGED << handle, idx, timestamp, FilesMutex, disk, ledgerVars, RequestMutex,
                    gateVars, auditVars, observed, returns, panicked,
                    callVars, heapVars >>

\* Faulty variant: the content is replaced only while the handle is flagged open.
WriteFile_SetContentIfOpen(c) ==
    /\ Running /\ pc[c] = "w_set"
    /\ Files' = [Files EXCEPT ![handle[c]].Content =
                                  IF Files[handle[c]].IsOpen THEN ContentOf(c) ELSE @,
                              ![handle[c]].Mutex = Free]
    /\ Goto(c, "w_save")
    /\ UNCHANGED << handle, idx, timestamp, FilesMutex, disk, ledgerVars, RequestMutex,
                    gateVars, auditVars, observed, returns, panicked,
                    callVars, heapVars >>

\* file.Content = content; file.Mutex.Unlock()
WriteFile_SetContent(c) ==
    /\ Running /\ pc[c] = "w_set"
    /\ Files' = [Files EXCEPT ![handle[c]].Content = ContentOf(c),
                              ![handle[c]].Mutex = Free]
    /\ Goto(c, "w_save")
    /\ UNCHANGED << handle, idx, timestamp, FilesMutex, disk, ledgerVars, RequestMutex,
                    gateVars, auditVars, observed, returns, panicked,
                    callVars, heapVars >>

\* ioutil.WriteFile succeeds, then the Printf
WriteFile_Save(c) ==
    /\ Running /\ pc[c] = "w_save"
    /\ disk' = [disk EXCEPT ![handle[c]] = ContentOf(c)]
    /\ Goto(c, "w_log")
    /\ UNCHANGED << handle, idx, timestamp, Files, FilesMutex, ledgerVars, RequestMutex,
                    gateVars, auditVars, observed, returns, panicked,
                    callVars, heapVars >>

\* Faulty variant: a failed save puts the previous content back in memory.
WriteFile_SaveFailRollback(c) ==
    /\ Running /\ pc[c] = "w_save"
    /\ disk' = disk
    /\ Files' = [Files EXCEPT ![handle[c]].Content = disk[handle[c]]]
    /\ RequestMutex' = Free
    /\ returns' = Append(returns,
                     [ClientID |-> c, Action |-> "Write", Ok |-> FALSE,
                      Timestamp |-> timestamp[c], Content |-> ContentOf(c)])
    /\ timestamp' = [timestamp EXCEPT ![c] = 0]
    /\ Goto(c, "r_lock")
    /\ UNCHANGED << handle, idx, FilesMutex, ledgerVars, gateVars, auditVars,
                    observed, panicked,
                    callVars, heapVars >>

\* Faulty variant: the failed attempt is written to the audit log before returning.
WriteFile_SaveFailLogged(c) ==
    /\ Running /\ pc[c] = "w_save"
    /\ \E left \in {disk[handle[c]], PartialContent} :
         disk' = [disk EXCEPT ![handle[c]] = left]
    /\ LogFile' = Append(LogFile, [ClientID |-> c, Action |-> "Write",
                                   FileName |-> handle[c], Timestamp |-> timestamp[c]])
    /\ RequestMutex' = Free
    /\ returns' = Append(returns,
                     [ClientID |-> c, Action |-> "Write", Ok |-> FALSE,
                      Timestamp |-> timestamp[c], Content |-> ContentOf(c)])
    /\ timestamp' = [timestamp EXCEPT ![c] = 0]
    /\ Goto(c, "r_lock")
    /\ UNCHANGED << handle, idx, Files, FilesMutex, ledgerVars, gateVars, DeferredArray,
                    observed, panicked,
                    callVars, heapVars >>

\* ioutil.WriteFile fails, leaving the stored file as it was or truncated; the
\* error is printed and the function returns (deferred fs.RequestMutex.Unlock()).
WriteFile_SaveFail(c) ==
    /\ Running /\ pc[c] = "w_save"
    /\ \E left \in {disk[handle[c]], PartialContent} :
         disk' = [disk EXCEPT ![handle[c]] = left]
    /\ RequestMutex' = Free
    /\ returns' = Append(returns, Returned(c, "Write", FALSE, ContentOf(c)))
    /\ timestamp' = [timestamp EXCEPT ![c] = 0]
    /\ Goto(c, "r_lock")
    /\ UNCHANGED << handle, idx, Files, FilesMutex, ledgerVars, gateVars, auditVars,
                    observed, panicked,
                    callVars, heapVars >>

WriteFile_Log(c) == LogRequest(c, "Write", "w_log", "w_defer")

WriteFile_Defer(c) == AddDeferredOperation(c, "Write", "w_defer", "w_ret")

WriteFile_Return(c) == Return(c, "Write", ContentOf(c), "w_ret", "r_lock")

-----------------------------------------------------------------------------
(* ReadFile *)

ReadFile_Lock(c) == LockRequest(c, "r_lock", "r_tslock")

ReadFile_LockTimestamp(c) == LockTimestamp(c, "r_tslock", "r_ts")

ReadFile_Allocate(c) == Allocate(c, "r_ts", "r_append")

ReadFile_Append(c) == AppendRequest(c, "r_append", "r_send")

ReadFile_Broadcast(c) == Broadcast(c, "r_send", "r_recv")

ReadFile_PollSkip(c) == PollSkip(c, "r_recv", "r_print")

ReadFile_PollLock(c) == PollLock(c, "r_recv", "r_ack")

ReadFile_ReceiveAcknowledge(c) == ReceiveAcknowledge(c, "r_ack", "r_recv", "r_print")

\* Faulty variant: the read reports the stored file, not the handle's Content.
ReadFile_PrintStored(c) ==
    /\ Running /\ pc[c] = "r_print"
    /\ observed' = [observed EXCEPT ![c] = disk[handle[c]]]
    /\ Goto(c, "r_log")
    /\ UNCHANGED << handle, idx, timestamp, fileVars, ledgerVars, RequestMutex, gateVars,
                    auditVars, returns, panicked,
                    callVars, heapVars >>

\* fmt.Printf("Client %d read file %s: %s\n", clientID, file.Name, file.Content)
ReadFile_Print(c) ==
    /\ Running /\ pc[c] = "r_print"
    /\ observed' = [observed EXCEPT ![c] = Files[handle[c]].Content]
    /\ Goto(c, "r_log")
    /\ UNCHANGED << handle, idx, timestamp, fileVars, ledgerVars, RequestMutex, gateVars,
                    auditVars, returns, panicked,
                    callVars, heapVars >>

ReadFile_Log(c) == LogRequest(c, "Read", "r_log", "r_defer")

ReadFile_Defer(c) == AddDeferredOperation(c, "Read", "r_defer", "r_ret")

ReadFile_Return(c) == Return(c, "Read", observed[c], "r_ret", "c_lock")

-----------------------------------------------------------------------------
(* SendRequest goroutines *)

\* The Go runtime's checked store a[id] = true: a panic when id is out of range.
IndexStore(ack, id) ==
    IF id >= 0 /\ id < Len(ack)
    THEN [ack |-> SetSlot(ack, id), panic |-> FALSE]
    ELSE [ack |-> ack, panic |-> TRUE]

\* if request.ClientID < len(fs.Acknowledged) { store } else { Println("Invalid ...") }
CheckedStore(ack, id) ==
    IF InBounds(id, ack)
    THEN IndexStore(ack, id)
    ELSE [ack |-> ack, panic |-> FALSE]

\* A spawned goroutine gets to run: the Printf, then fs.AcknowledgeMutex.Lock()
SendRequest_Lock(t) ==
    /\ Running /\ tasks[t] > 0
    /\ CanLock(AcknowledgeMutex)
    /\ AcknowledgeMutex' = Task(t)
    /\ tasks' = [tasks EXCEPT ![t] = @ - 1]
    /\ UNCHANGED << clientVars, fileVars, ledgerVars, RequestMutex, Acknowledged, stdout,
                    auditVars, observed, returns, panicked,
                    callVars, heapVars >>

\* The guarded store and the deferred fs.AcknowledgeMutex.Unlock()
SendRequest_Store(t) ==
    /\ Running /\ AcknowledgeMutex = Task(t)
    /\ Acknowledged' = CheckedStore(Acknowledged, t).ack
    /\ panicked' = CheckedStore(Acknowledged, t).panic
    /\ AcknowledgeMutex' = Free
    /\ stdout' = IF InBounds(t, Acknowledged)
                 THEN stdout
                 ELSE [stdout EXCEPT !.invalid = @ + 1]
    /\ UNCHANGED << clientVars, fileVars, ledgerVars, RequestMutex, tasks,
                    auditVars, observed, returns,
                    callVars, heapVars >>

-----------------------------------------------------------------------------
(* The program *)

\* The state main builds before the client goroutines run: empty registries,
\* the gate as allocated, the file on disk, every goroutine about to call OpenFile.
InitFor(clients, gate) ==
    /\ pc = [c \in clients |-> "open"]
    /\ handle = [c \in clients |-> NoHandle]
    /\ idx = [c \in clients |-> 0]
    /\ timestamp = [c \in clients |-> 0]
    /\ Files = << >>
    /\ FilesMutex = Free
    /\ Requests = << >>
    /\ RequestMutex = Free
    /\ Acknowledged = gate
    /\ AcknowledgeMutex = Free
    /\ Timestamps = << >>
    /\ TimestampMutex = Free
    /\ LogFile = << >>
    /\ DeferredArray = << >>
    /\ disk = [n \in FileNames |-> InitialContent]
    /\ tasks = [t \in clients |-> 0]
    /\ stdout = [allAcknowledged |-> 0, invalid |-> 0]
    /\ observed = [c \in clients |-> InitialContent]
    /\ returns = << >>
    /\ sent = [c \in clients |-> 0]
    /\ polls = [c \in clients |-> 0]
    /\ heap = 0
    /\ ptr = [c \in clients |-> 0]
    /\ panicked = FALSE

\* fileSystem.Acknowledged = make([]bool, numClients)
Init == InitFor(Clients, MakeBools(NumClients))

Next ==
    \/ \E c \in Clients : OpenFile_Lock(c)
    \/ \E c \in Clients : OpenFile_Miss(c)
    \/ \E c \in Clients : OpenFile_LoadFail(c)
    \/ \E c \in Clients : OpenFile_Create(c)
    \/ \E c \in Clients : OpenFile_Existing(c)
    \/ \E c \in Clients : OpenFile_SetOpen(c)
    \/ \E c \in Clients : OpenFile_Return(c)
    \/ \E c \in Clients : WriteFile_Lock(c)
    \/ \E c \in Clients : WriteFile_LockTimestamp(c)
    \/ \E c \in Clients : WriteFile_Allocate(c)
    \/ \E c \in Clients : WriteFile_Append(c)
    \/ \E c \in Clients : WriteFile_Broadcast(c)
    \/ \E c \in Clients : WriteFile_PollSkip(c)
    \/ \E c \in Clients : WriteFile_PollLock(c)
    \/ \E c \in Clients : WriteFile_ReceiveAcknowledge(c)
    \/ \E c \in Clients : WriteFile_LockFile(c)
    \/ \E c \in Clients : WriteFile_SetContent(c)
    \/ \E c \in Clients : WriteFile_Save(c)
    \/ \E c \in Clients : WriteFile_SaveFail(c)
    \/ \E c \in Clients : WriteFile_Log(c)
    \/ \E c \in Clients : WriteFile_Defer(c)
    \/ \E c \in Clients : WriteFile_Return(c)
    \/ \E c \in Clients : ReadFile_Lock(c)
    \/ \E c \in Clients : ReadFile_LockTimestamp(c)
    \/ \E c \in Clients : ReadFile_Allocate(c)
    \/ \E c \in Clients : ReadFile_Append(c)
    \/ \E c \in Clients : ReadFile_Broadcast(c)
    \/ \E c \in Clients : ReadFile_PollSkip(c)
    \/ \E c \in Clients : ReadFile_PollLock(c)
    \/ \E c \in Clients : ReadFile_ReceiveAcknowledge(c)
    \/ \E c \in Clients : ReadFile_Print(c)
    \/ \E c \in Clients : ReadFile_Log(c)
    \/ \E c \in Clients : ReadFile_Defer(c)
    \/ \E c \in Clients : ReadFile_Return(c)
    \/ \E c \in Clients : CloseFile_Lock(c)
    \/ \E c \in Clients : CloseFile_SetClosed(c)
    \/ \E t \in Clients : SendRequest_Lock(t)
    \/ \E t \in Clients : SendRequest_Store(t)

\* The next step of client c's goroutine, whichever it is.
ClientStep(c) ==
    \/ OpenFile_Lock(c) \/ OpenFile_Miss(c) \/ OpenFile_LoadFail(c) \/ OpenFile_Create(c)
    \/ OpenFile_Existing(c) \/ OpenFile_SetOpen(c) \/ OpenFile_Return(c)
    \/ WriteFile_Lock(c) \/ WriteFile_LockTimestamp(c) \/ WriteFile_Allocate(c)
    \/ WriteFile_Append(c) \/ WriteFile_Broadcast(c) \/ WriteFile_PollSkip(c)
    \/ WriteFile_PollLock(c) \/ WriteFile_ReceiveAcknowledge(c)
    \/ WriteFile_LockFile(c) \/ WriteFile_SetContent(c) \/ WriteFile_Save(c)
    \/ WriteFile_SaveFail(c) \/ WriteFile_Log(c) \/ WriteFile_Defer(c)
    \/ WriteFile_Return(c)
    \/ ReadFile_Lock(c) \/ ReadFile_LockTimestamp(c) \/ ReadFile_Allocate(c)
    \/ ReadFile_Append(c) \/ ReadFile_Broadcast(c) \/ ReadFile_PollSkip(c)
    \/ ReadFile_PollLock(c) \/ ReadFile_ReceiveAcknowledge(c) \/ ReadFile_Print(c)
    \/ ReadFile_Log(c) \/ ReadFile_Defer(c) \/ ReadFile_Return(c)
    \/ CloseFile_Lock(c) \/ CloseFile_SetClosed(c)

Spec == Init /\ [][Next]_vars

\* The Go scheduler runs every goroutine that has started and can take a
\* step: a client goroutine, and a SendRequest goroutine that has taken
\* AcknowledgeMutex and is about to store and unlock.  A spawned SendRequest
\* goroutine is promised no start: the process may end before it runs.
FairSpec ==
    /\ Spec
    /\ \A c \in Clients : WF_vars(ClientStep(c))
    /\ \A t \in Clients : WF_vars(SendRequest_Store(t))

-----------------------------------------------------------------------------
(* The variant without timestamps (cls.go): three hard-coded clients, a gate  *)
(* that starts empty, no clock, no audit log, no deferred list, and a         *)
(* SendRequest that stores without testing the index.                         *)

ClsNumClients == 3

ClsClients == 1 .. ClsNumClients

\* How many of the three client goroutines the scheduler has let start: the
\* others stay before their first statement for the whole run.
ClsScheduled == 2

ClsStarted == {c \in ClsClients : c <= ClsScheduled}

\* "Deepan is bad boy" for client 1, "Deepan is good boy" for clients 2 and 3.
ClsContentOf(c) == IF c = 1 THEN 1 ELSE 2

ClsWriteFile_Lock(c) == LockRequest(c, "w_lock", "w_append")

\* request := &Request{clientID, file}; fs.Requests = append(fs.Requests, request)
ClsAppendRequest(c, from, to) ==
    /\ Running /\ pc[c] = from
    /\ Requests' = Append(Requests, [ClientID |-> c, File |-> handle[c]])
    /\ idx' = [idx EXCEPT ![c] = 0]
    /\ Goto(c, to)
    /\ UNCHANGED << handle, timestamp, fileVars, Timestamps, TimestampMutex, RequestMutex,
                    gateVars, auditVars, observed, returns, panicked, heapVars >>
    /\ sent' = [sent EXCEPT ![c] = 0]
    /\ polls' = [polls EXCEPT ![c] = 0]

ClsWriteFile_Append(c) == ClsAppendRequest(c, "w_append", "w_send")

\* file.Content = content; file.Mutex.Unlock()
ClsWriteFile_SetContent(c) ==
    /\ Running /\ pc[c] = "w_set"
    /\ Files' = [Files EXCEPT ![handle[c]].Content = ClsContentOf(c),
                              ![handle[c]].Mutex = Free]
    /\ Goto(c, "w_save")
    /\ UNCHANGED << handle, idx, timestamp, FilesMutex, disk, ledgerVars, RequestMutex,
                    gateVars, auditVars, observed, returns, panicked,
                    callVars, heapVars >>

\* ioutil.WriteFile succeeds, then the Printf
ClsWriteFile_Save(c) ==
    /\ Running /\ pc[c] = "w_save"
    /\ disk' = [disk EXCEPT ![handle[c]] = ClsContentOf(c)]
    /\ Goto(c, "w_ret")
    /\ UNCHANGED << handle, idx, timestamp, Files, FilesMutex, ledgerVars, RequestMutex,
                    gateVars, auditVars, observed, returns, panicked,
                    callVars, heapVars >>

\* ioutil.WriteFile fails: the error is printed and the function returns.
ClsWriteFile_SaveFail(c) ==
    /\ Running /\ pc[c] = "w_save"
    /\ \E left \in {disk[handle[c]], PartialContent} :
         disk' = [disk EXCEPT ![handle[c]] = left]
    /\ RequestMutex' = Free
    /\ returns' = Append(returns, Returned(c, "Write", FALSE, ClsContentOf(c)))
    /\ Goto(c, "r_lock")
    /\ UNCHANGED << handle, idx, timestamp, Files, FilesMutex, ledgerVars, gateVars,
                    auditVars, observed, panicked,
                    callVars, heapVars >>

ClsWriteFile_Return(c) == Return(c, "Write", ClsContentOf(c), "w_ret", "r_lock")

ClsReadFile_Lock(c) == LockRequest(c, "r_lock", "r_append")

ClsReadFile_Append(c) == ClsAppendRequest(c, "r_append", "r_send")

\* fmt.Printf("Client %d read file %s: %s\n", clientID, file.Name, file.Content)
ClsReadFile_Print(c) ==
    /\ Running /\ pc[c] = "r_print"
    /\ observed' = [observed EXCEPT ![c] = Files[handle[c]].Content]
    /\ Goto(c, "r_ret")
    /\ UNCHANGED << handle, idx, timestamp, fileVars, ledgerVars, RequestMutex, gateVars,
                    auditVars, returns, panicked,
                    callVars, heapVars >>

\* fs.Acknowledged[request.ClientID] = true, unguarded; fs.AcknowledgeMutex.Unlock()
\* is not deferred, so a panicking store leaves the mutex held.
ClsSendRequest_Store(t) ==
    /\ Running /\ AcknowledgeMutex = Task(t)
    /\ Acknowledged' = IndexStore(Acknowledged, t).ack
    /\ panicked' = IndexStore(Acknowledged, t).panic
    /\ AcknowledgeMutex' = IF IndexStore(Acknowledged, t).panic THEN AcknowledgeMutex ELSE Free
    /\ UNCHANGED << clientVars, fileVars, ledgerVars, RequestMutex, tasks, stdout,
                    auditVars, observed, returns,
                    callVars, heapVars >>

\* Acknowledged: []bool{}
InitCls == InitFor(ClsClients, << >>)

NextCls ==
    \/ \E c \in ClsStarted : OpenFile_Lock(c)
    \/ \E c \in ClsStarted : OpenFile_Miss(c)
    \/ \E c \in ClsStarted : OpenFile_LoadFail(c)
    \/ \E c \in ClsStarted : OpenFile_Create(c)
    \/ \E c \in ClsStarted : OpenFile_Existing(c)
    \/ \E c \in ClsStarted : OpenFile_SetOpen(c)
    \/ \E c \in ClsStarted : OpenFile_Return(c)
    \/ \E c \in ClsStarted : ClsWriteFile_Lock(c)
    \/ \E c \in ClsStarted : ClsWriteFile_Append(c)
    \/ \E c \in ClsStarted : WriteFile_Broadcast(c)
    \/ \E c \in ClsStarted : WriteFile_PollSkip(c)
    \/ \E c \in ClsStarted : WriteFile_PollLock(c)
    \/ \E c \in ClsStarted : WriteFile_ReceiveAcknowledge(c)
    \/ \E c \in ClsStarted : WriteFile_LockFile(c)
    \/ \E c \in ClsStarted : ClsWriteFile_SetContent(c)
    \/ \E c \in ClsStarted : ClsWriteFile_Save(c)
    \/ \E c \in ClsStarted : ClsWriteFile_SaveFail(c)
    \/ \E c \in ClsStarted : ClsWriteFile_Return(c)
    \/ \E c \in ClsStarted : ClsReadFile_Lock(c)
    \/ \E c \in ClsStarted : ClsReadFile_Append(c)
    \/ \E c \in ClsStarted : ReadFile_Broadcast(c)
    \/ \E c \in ClsStarted : ReadFile_PollSkip(c)
    \/ \E c \in ClsStarted : ReadFile_PollLock(c)
    \/ \E c \in ClsStarted : ReadFile_ReceiveAcknowledge(c)
    \/ \E c \in ClsStarted : ClsReadFile_Print(c)
    \/ \E c \in ClsStarted : ReadFile_Return(c)
    \/ \E c \in ClsStarted : CloseFile_Lock(c)
    \/ \E c \in ClsStarted : CloseFile_SetClosed(c)
    \/ \E t \in ClsClients : SendRequest_Lock(t)
    \/ \E t \in ClsClients : ClsSendRequest_Store(t)

SpecCls == InitCls /\ [][NextCls]_vars

-----------------------------------------------------------------------------
(* Positions and history *)

WriteBody == {"w_tslock", "w_ts", "w_append", "w_send", "w_recv", "w_ack", "w_flock",
              "w_set", "w_save", "w_log", "w_defer", "w_ret"}

ReadBody == {"r_tslock", "r_ts", "r_append", "r_send", "r_recv", "r_ack", "r_print",
             "r_log", "r_defer", "r_ret"}

\* The client is between RequestMutex.Lock() and the return of ReadFile / WriteFile.
InBody(c) == pc[c] \in WriteBody \cup ReadBody

\* The client has not yet returned from its WriteFile (or from OpenFile).
BeforeWriteReturn(c) ==
    pc[c] \in {"open", "o_lookup", "o_load", "o_set", "o_ret", "w_lock"} \cup WriteBody

AllDone == \A c \in Clients : pc[c] = "done"

Indices(seq, P(_)) == {i \in 1 .. Len(seq) : P(seq[i])}

IsWrite(e) == e.Action = "Write"

IsRead(e) == e.Action = "Read"

IsFailed(e) == ~e.Ok

\* Index in the history of the WriteFile call that released RequestMutex last (0: none).
LastWriteIndex ==
    IF Indices(returns, IsWrite) = {} THEN 0
    ELSE CHOOSE i \in Indices(returns, IsWrite) :
             \A j \in Indices(returns, IsWrite) : j <= i

-----------------------------------------------------------------------------
(* Claims *)

\* C1: at most one client is inside the body of ReadFile or WriteFile, and it
\* is the holder of RequestMutex: while a call is between its Lock and its
\* return, no other call is at any step that appends to the ledger, allocates
\* a timestamp, polls the gate, changes content or writes an audit entry.
C1_MutualExclusion ==
    /\ \A c1, c2 \in Clients : InBody(c1) /\ InBody(c2) => c1 = c2
    /\ \A c \in Clients : InBody(c) => RequestMutex = Cl(c)
    /\ (\A c \in Clients : ~InBody(c)) => RequestMutex = Free

\* A call is in its body while another client is waiting at RequestMutex.Lock().
C1_Witness ==
    \E c1, c2 \in Clients :
        /\ c1 # c2
        /\ pc[c1] \in {"w_send", "r_send"}
        /\ pc[c2] \in {"w_lock", "r_lock"}
        /\ Len(Requests) >= 2

\* C2: the k-th timestamp allocated in the run is k, so every timestamp is
\* positive, differs from and exceeds all those allocated before it; the
\* ledger carries them in strictly increasing order and a call in progress
\* holds the one it allocated.
C2_TimestampsOrdinal ==
    /\ \A k \in 1 .. Len(Timestamps) : Timestamps[k] = k
    /\ \A i, j \in 1 .. Len(Timestamps) : i < j => Timestamps[i] < Timestamps[j]
    /\ \A i \in 1 .. Len(Requests) : Requests[i].Timestamp = i
    /\ \A c \in Clients :
         pc[c] \in (WriteBody \cup ReadBody) \ {"w_tslock", "w_ts", "r_tslock", "r_ts"}
            => /\ timestamp[c] >= 1
               /\ timestamp[c] = Len(Timestamps)

\* Four timestamps have been allocated, by calls of two different clients.
C2_Witness ==
    /\ Len(Timestamps) >= 4
    /\ \E i, j \in 1 .. Len(Requests) : Requests[i].ClientID # Requests[j].ClientID

\* Every client that got a handle has returned from WriteFile, and some WriteFile returned.
WritesCompleted ==
    /\ \A c \in Clients : ~BeforeWriteReturn(c)
    /\ LastWriteIndex # 0

\* C3 as stated: once all WriteFile calls have completed, the in-memory
\* Content and the content saved to storage both equal the content argument
\* of the WriteFile call that released RequestMutex last.
C3_LastWriterWinsEverywhere ==
    WritesCompleted =>
        \A n \in DOMAIN Files :
            /\ Files[n].Content = returns[LastWriteIndex].Content
            /\ disk[n] = returns[LastWriteIndex].Content

\* C3 amended: once all WriteFile calls have completed, the in-memory Content
\* equals the content argument of the WriteFile call that released
\* RequestMutex last, and the saved content equals it too when the save of
\* that last call succeeded.
C3_LastWriterWins ==
    WritesCompleted =>
        \A n \in DOMAIN Files :
            /\ Files[n].Content = returns[LastWriteIndex].Content
            /\ returns[LastWriteIndex].Ok => disk[n] = returns[LastWriteIndex].Content

\* Two clients have written, the last one saved, and the file has since been closed by a client.
C3_Witness ==
    /\ WritesCompleted
    /\ Cardinality(Indices(returns, IsWrite)) >= 2
    /\ returns[LastWriteIndex].Ok
    /\ \E n \in DOMAIN Files : disk[n] = returns[LastWriteIndex].Content
    /\ \E c \in Clients : pc[c] = "done" /\ handle[c] # NoHandle

\* C5: whenever no ReadFile / WriteFile call is in progress, the audit log has
\* one entry per ReadFile call that returned and per WriteFile call that
\* returned without a save failure.
C5_AuditCount ==
    (\A c \in Clients : ~InBody(c)) =>
        Len(LogFile) =
            Cardinality({i \in Indices(returns, IsRead) : TRUE})
          + Cardinality({i \in Indices(returns, IsWrite) : returns[i].Ok})

\* No call is in progress, a WriteFile has failed to save and other calls were logged.
C5_Witness ==
    /\ \A c \in Clients : ~InBody(c)
    /\ Indices(returns, IsFailed) # {}
    /\ Len(LogFile) >= 2
    /\ Len(returns) > Len(LogFile)

\* The entries of the audit log with the given action.
AuditOf(action) == {i \in 1 .. Len(LogFile) : LogFile[i].Action = action}

\* The run is over, every client got a handle and no save failed.
CleanRun ==
    /\ AllDone
    /\ \A c \in Clients : handle[c] # NoHandle
    /\ Indices(returns, IsFailed) = {}

\* C6: when all N clients open the same loadable file and run Write, Read,
\* Close without a save failure, the run ends with N Write and N Read audit
\* entries, whose timestamps are pairwise distinct and are exactly 1..2N, one
\* Write and one Read per client, and the final content is the content of the
\* Write with the largest timestamp.
C6_Scenario ==
    CleanRun =>
        /\ Cardinality(AuditOf("Write")) = NumClients
        /\ Cardinality(AuditOf("Read")) = NumClients
        /\ Len(LogFile) = 2 * NumClients
        /\ {LogFile[i].Timestamp : i \in 1 .. Len(LogFile)} = 1 .. (2 * NumClients)
        /\ \A i, j \in 1 .. Len(LogFile) :
             i # j => LogFile[i].Timestamp # LogFile[j].Timestamp
        /\ \A c \in Clients : \A a \in {"Write", "Read"} :
             Cardinality({i \in AuditOf(a) : LogFile[i].ClientID = c}) = 1
        /\ \A i \in AuditOf("Write") :
             (\A j \in AuditOf("Write") : LogFile[j].Timestamp <= LogFile[i].Timestamp)
                => \A n \in DOMAIN Files :
                     /\ Files[n].Content = ContentOf(LogFile[i].ClientID)
                     /\ disk[n] = ContentOf(LogFile[i].ClientID)

\* A clean run has ended in which the calls of the clients interleaved: the
\* client that wrote last did not write first in the ledger.
C6_Witness ==
    /\ CleanRun
    /\ Len(LogFile) = 2 * NumClients
    /\ \E i \in 2 .. Len(Requests) : Requests[i].ClientID # Requests[i - 1].ClientID
    /\ Requests[2].ClientID # Requests[1].ClientID

\* A SendRequest goroutine with target t leaves its critical section in this step.
SendRequestStep(t) == AcknowledgeMutex = Task(t) /\ AcknowledgeMutex' # Task(t)

\* C8: a SendRequest whose target id is not below the length of the gate
\* returns normally (it releases the mutex, reports the id, no panic),
\* changes no slot and keeps the length; in-range targets only set their own
\* slot; and no interleaving ever makes an out-of-range access.
C8_OutOfBoundsIgnored ==
    /\ [][\A t \in Clients :
            SendRequestStep(t) =>
               IF t >= Len(Acknowledged)
               THEN /\ Acknowledged' = Acknowledged
                    /\ AcknowledgeMutex' = Free
                    /\ stdout'.invalid = stdout.invalid + 1
                    /\ ~panicked'
               ELSE /\ Len(Acknowledged') = Len(Acknowledged)
                    /\ \A i \in 1 .. Len(Acknowledged) :
                         Acknowledged'[i] = (Acknowledged[i] \/ i = t + 1)
                    /\ stdout'.invalid = stdout.invalid]_vars
    /\ []~panicked

\* A SendRequest for client N has found the N-slot gate too short and returned.
C8_Witness ==
    /\ stdout.invalid >= 1
    /\ Len(Acknowledged) = NumClients
    /\ AcknowledgeMutex = Free
    /\ \E i \in 1 .. Len(Acknowledged) : Acknowledged[i]
    /\ ~panicked

\* The client's OpenFile returned nil and its goroutine has ended.
Inert(c) == pc[c] = "done" /\ handle[c] = NoHandle

\* The step in which c's OpenFile returns nil.
LoadFailStep(c) == pc[c] = "o_load" /\ pc'[c] = "done"

Mentions(seq, c) == \E i \in 1 .. Len(seq) : seq[i].ClientID = c

\* C9: when the load fails on the first OpenFile of a name, OpenFile returns
\* no handle and leaves the registry without an entry for the name, and the
\* ledger, clock, audit log, deferred list, storage and the other clients'
\* positions and handles as they were; that client then makes no call: it
\* never has a ledger request, an audit entry, a deferred label or a returned
\* call, and holds no mutex.
C9_LoadFailureInert ==
    /\ [][\A c \in Clients :
            LoadFailStep(c) =>
               /\ handle'[c] = NoHandle
               /\ Files' = Files
               /\ FileName(c) \notin DOMAIN Files'
               /\ FilesMutex' = Free
               /\ UNCHANGED << Requests, Timestamps, LogFile, DeferredArray, disk,
                               Acknowledged, tasks >>
               /\ \A d \in Clients \ {c} : pc'[d] = pc[d] /\ handle'[d] = handle[d]]_vars
    /\ [](\A c \in Clients :
            Inert(c) =>
               /\ ~Mentions(Requests, c)
               /\ ~Mentions(LogFile, c)
               /\ ~Mentions(DeferredArray, c)
               /\ ~Mentions(returns, c)
               /\ tasks[c] = 0
               /\ Cl(c) \notin {FilesMutex, RequestMutex, TimestampMutex, AcknowledgeMutex})
    /\ [][\A c \in Clients : Inert(c) => Inert(c)']_vars

\* One client's load failed while another went through Write, Read and Close.
C9_Witness ==
    \E c, d \in Clients :
        /\ Inert(c)
        /\ pc[d] = "done" /\ handle[d] # NoHandle
        /\ Cardinality({i \in 1 .. Len(LogFile) : LogFile[i].ClientID = d}) = 2
        /\ Len(Timestamps) = 2

\* The step in which c's WriteFile returns after a failed save.
SaveFailStep(c) ==
    /\ pc[c] = "w_save"
    /\ Len(returns') = Len(returns) + 1
    /\ ~returns'[Len(returns')].Ok

\* C10: when the save fails inside WriteFile, the in-memory Content already
\* equals the content argument and differs from the stored content, the call
\* returns (releasing RequestMutex) without adding an audit entry or a
\* deferred label, and the ledger request and timestamp of the call stay.
C10_SaveFailure ==
    [][\A c \in Clients :
         SaveFailStep(c) =>
            /\ Files[handle[c]].Content = ContentOf(c)
            /\ Files'[handle[c]].Content = ContentOf(c)
            /\ disk'[handle[c]] # Files'[handle[c]].Content
            /\ LogFile' = LogFile
            /\ DeferredArray' = DeferredArray
            /\ Requests' = Requests
            /\ Timestamps' = Timestamps
            /\ Requests[Len(Requests)] =
                  [ClientID |-> c, File |-> handle[c], Timestamp |-> timestamp[c]]
            /\ Timestamps[Len(Timestamps)] = timestamp[c]
            /\ RequestMutex = Cl(c) /\ RequestMutex' = Free
            /\ pc'[c] = "r_lock"]_vars

\* A WriteFile whose save failed has returned: memory holds its content, the
\* storage does not, its request is in the ledger and it is absent from the log.
C10_Witness ==
    \E i \in Indices(returns, IsFailed) :
        /\ i = Len(returns)
        /\ \E n \in DOMAIN Files :
             Files[n].Content = returns[i].Content /\ disk[n] # returns[i].Content
        /\ \E k \in 1 .. Len(Requests) : Requests[k].Timestamp = returns[i].Timestamp
        /\ \A k \in 1 .. Len(LogFile) : LogFile[k].Timestamp # returns[i].Timestamp
        /\ Len(LogFile) >= 1

\* Some goroutine that is part of the run can take a step.
CanProgress ==
    \/ \E c \in Clients : ENABLED ClientStep(c)
    \/ \E t \in Clients : ENABLED SendRequest_Store(t)

PollStep(c) == pc[c] \in {"w_ack", "r_ack"} /\ pc'[c] # pc[c]

\* The poll of this step printed "All acknowledgments received".
PollSucceeds == stdout'.allAcknowledged = stdout.allAcknowledged + 1

\* C7: ReceiveAcknowledge reports success only from a state where every slot
\* of Acknowledged is true, and right after a success the array is all-false
\* with the length of the ledger at that moment; when a slot is false the
\* call reports nothing and leaves the array, contents and length, unchanged.
C7_PollAndReset ==
    [][\A c \in DOMAIN pc :
         PollStep(c) =>
            /\ PollSucceeds =>
                  /\ AllTrue(Acknowledged)
                  /\ Len(Acknowledged') = Len(Requests')
                  /\ \A i \in 1 .. Len(Acknowledged') : ~Acknowledged'[i]
            /\ ~AllTrue(Acknowledged) =>
                  /\ Acknowledged' = Acknowledged
                  /\ ~PollSucceeds
            /\ Requests' = Requests
            /\ AcknowledgeMutex = Cl(c) /\ AcknowledgeMutex' = Free]_vars

\* One poll has succeeded and reset the gate to the ledger's length of then,
\* and a later poll of a longer ledger found a false slot and left it alone.
C7_Witness ==
    /\ stdout.allAcknowledged = 1
    /\ Len(Acknowledged) = 2
    /\ Len(Requests) = 3
    /\ ~AllTrue(Acknowledged)
    /\ \E c \in DOMAIN pc : pc[c] = "r_print" /\ Requests[1].ClientID # c

-----------------------------------------------------------------------------
(* Locks held at the accesses of a handle's Content *)

\* The step executing `file.Content = content` in WriteFile.
ContentWrite(c) == pc[c] = "w_set" /\ pc'[c] # "w_set"

\* The step evaluating file.Content for the Printf of ReadFile.
ContentRead(c) == pc[c] = "r_print" /\ pc'[c] # "r_print"

HoldsFileMutex(c) == handle[c] \in DOMAIN Files /\ Files[handle[c]].Mutex = Cl(c)

\* C11 as stated: every step of ReadFile or WriteFile that reads or writes the
\* handle's Content is taken by a client holding that handle's own Mutex.
C11_ContentUnderFileMutex ==
    [][\A c \in DOMAIN pc :
          (ContentWrite(c) \/ ContentRead(c)) => HoldsFileMutex(c)]_vars

\* C11 amended: the write of Content in WriteFile is taken while holding the
\* handle's Mutex and RequestMutex; the read of Content in ReadFile is taken
\* while holding RequestMutex but not the handle's Mutex, it yields the
\* handle's current content, and no client is at a write of Content then.
C11_ContentUnderLocks ==
    [][\A c \in DOMAIN pc :
          /\ ContentWrite(c) => HoldsFileMutex(c) /\ RequestMutex = Cl(c)
          /\ ContentRead(c) =>
                /\ RequestMutex = Cl(c)
                /\ ~HoldsFileMutex(c)
                /\ observed'[c] = Files[handle[c]].Content
                /\ \A d \in DOMAIN pc : pc[d] # "w_set"]_vars

\* A client has just read the content while another client holds the handle's Mutex.
C11_Witness ==
    \E c \in DOMAIN pc, d \in DOMAIN pc :
        /\ pc[c] = "r_log" /\ d # c
        /\ observed[c] = Files[handle[c]].Content
        /\ observed[c] # InitialContent
        /\ Files[handle[c]].Mutex = Cl(d)

-----------------------------------------------------------------------------
(* One handle per name *)

\* The clients whose OpenFile has returned a handle.
Opened == {c \in DOMAIN pc : handle[c] # NoHandle}

\* C12: for every interleaving of the OpenFile calls, each registered name
\* stands for exactly one File object, no more File objects have been created
\* (and loaded) than names are registered, and every OpenFile that returned
\* a handle returned the object registered under its name, so all clients of
\* a name hold the same object; a failed OpenFile holds none.
C12_SingleHandle ==
    /\ DOMAIN Files \subseteq FileNames
    /\ heap = Cardinality(DOMAIN Files)
    /\ \A n \in DOMAIN Files : Files[n].Ptr \in 1 .. heap
    /\ \A c \in Opened :
          /\ handle[c] \in DOMAIN Files
          /\ ptr[c] = Files[handle[c]].Ptr
    /\ \A c \in Opened, d \in Opened : handle[c] = handle[d] => ptr[c] = ptr[d]
    /\ \A c \in DOMAIN pc : pc[c] = "done" /\ handle[c] = NoHandle => ptr[c] = 0

\* Every client's OpenFile has returned, one of them having created the
\* handle while the others were still inside or before their own OpenFile.
C12_Witness ==
    /\ Opened = DOMAIN pc
    /\ heap = 1
    /\ \A c \in Opened : ptr[c] = 1
    /\ \E c \in Opened : pc[c] = "w_lock"

-----------------------------------------------------------------------------
(* The unguarded store of cls.go *)

\* C13: in the cls.go variant no interleaving brings a notifier to its store
\* `fs.Acknowledged[request.ClientID] = true` with the client id at or beyond
\* the current length of the array, and no store has failed out of range.
C13_ClsStoreInRange ==
    /\ ~panicked
    /\ \A t \in DOMAIN tasks : AcknowledgeMutex = Task(t) => t < Len(Acknowledged)

-----------------------------------------------------------------------------
(* Notifications and polls of one call *)

\* The entries of other clients among the first n entries of the ledger.
PeerCount(c, n) == Cardinality({i \in 1 .. n : Requests[i].ClientID # c})

SendLoop == {"w_send", "r_send"}

PollLoop == {"w_recv", "w_ack", "r_recv", "r_ack"}

AfterLoops == {"w_flock", "w_set", "w_save", "w_log", "w_defer", "w_ret",
               "r_print", "r_log", "r_defer", "r_ret"}

\* C14: a call of client c has, after i iterations of its first loop, spawned
\* one notifier per entry of another client among the first i ledger entries
\* and polled nothing; after the first loop it has spawned one per entry of
\* another client in the whole ledger, whose last entry is its own, and after
\* i iterations of the second loop it has called ReceiveAcknowledge once per
\* such entry among the first i; past both loops the two counts equal the
\* number of the ledger's entries of other clients, zero when all are its own.
\* Every iteration of the first loop spawns exactly one notifier for the
\* client of a foreign entry and none for an own entry.
C14_NotifyAndPollCounts ==
    /\ [](\A c \in DOMAIN pc :
            /\ pc[c] \in SendLoop \cup PollLoop \cup AfterLoops =>
                  /\ Len(Requests) >= 1
                  /\ Requests[Len(Requests)].ClientID = c
            /\ pc[c] \in SendLoop =>
                  /\ sent[c] = PeerCount(c, idx[c])
                  /\ polls[c] = 0
            /\ pc[c] \in PollLoop =>
                  /\ sent[c] = PeerCount(c, Len(Requests))
                  /\ polls[c] = PeerCount(c, idx[c])
            /\ pc[c] \in AfterLoops =>
                  /\ sent[c] = PeerCount(c, Len(Requests))
                  /\ polls[c] = sent[c]
                  /\ sent[c] = Len(Requests) - Cardinality(Indices(Requests, LAMBDA r : r.ClientID = c)))
    /\ [][\A c \in DOMAIN pc :
            pc[c] \in SendLoop /\ idx'[c] # idx[c] =>
                LET req == Requests[idx[c] + 1] IN
                  IF req.ClientID # c
                  THEN /\ tasks' = [tasks EXCEPT ![req.ClientID] = @ + 1]
                       /\ sent'[c] = sent[c] + 1
                  ELSE tasks' = tasks /\ sent'[c] = sent[c]]_vars

\* A call that found two entries of another client, left by that client's
\* completed WriteFile and ReadFile, has notified and polled twice.
C14_Witness ==
    \E c \in DOMAIN pc :
        /\ pc[c] \in AfterLoops
        /\ sent[c] = 2 /\ polls[c] = 2
        /\ \E d \in DOMAIN pc : d # c /\ pc[d] = "done"

-----------------------------------------------------------------------------
(* The request ledger *)

BeforeWriteAppend == {"open", "o_lookup", "o_load", "o_set", "o_ret",
                      "w_lock", "w_tslock", "w_ts", "w_append"}

BeforeReadAppend == (WriteBody \ BeforeWriteAppend) \cup {"r_lock", "r_tslock", "r_ts", "r_append"}

\* The calls of c that have appended their request.
CallsAppended(c) ==
    IF pc[c] \in BeforeWriteAppend \/ handle[c] = NoHandle THEN 0
    ELSE IF pc[c] \in BeforeReadAppend THEN 1
    ELSE 2

IsPrefix(s, t) == Len(s) <= Len(t) /\ \A i \in 1 .. Len(s) : t[i] = s[i]

\* C15: no step removes or changes a ledger entry; a step that changes the
\* ledger is the append of one call, adding exactly one entry with the
\* caller's id, its handle and the timestamp that call allocated, which is
\* the latest one of the clock; each call appends once, so a client has as
\* many entries as calls that reached their append; the i-th entry carries
\* timestamp i, and the ledger is as long as the clock whenever RequestMutex
\* is free.
C15_LedgerAppendOnly ==
    /\ [][/\ IsPrefix(Requests, Requests')
          /\ Requests' # Requests =>
                \E c \in DOMAIN pc :
                    /\ pc[c] \in {"w_append", "r_append"} /\ pc'[c] # pc[c]
                    /\ RequestMutex = Cl(c)
                    /\ timestamp[c] = Len(Timestamps)
                    /\ Requests' = Append(Requests, [ClientID |-> c, File |-> handle[c],
                                                     Timestamp |-> timestamp[c]])]_vars
    /\ [](\A c \in DOMAIN pc :
            Cardinality(Indices(Requests, LAMBDA r : r.ClientID = c)) = CallsAppended(c))
    /\ [](\A i \in 1 .. Len(Requests) :
            Requests[i].Timestamp = i /\ Requests[i].File \in DOMAIN Files)
    /\ [](RequestMutex = Free => Len(Requests) = Len(Timestamps))

\* Both clients have entries in a ledger of at least three entries, no call
\* is in progress, and one client still has a call to make.
C15_Witness ==
    /\ RequestMutex = Free
    /\ Len(Requests) >= 3
    /\ \A c \in DOMAIN pc : CallsAppended(c) >= 1
    /\ \E c \in DOMAIN pc : pc[c] = "r_lock"

-----------------------------------------------------------------------------
(* Lock nesting *)

\* The goroutines that take mutexes: the clients and the notifiers.
Holders == {Cl(c) : c \in DOMAIN pc} \cup {Task(t) : t \in DOMAIN tasks}

\* The mutexes held by goroutine h; a handle's Mutex is named by its file.
Held(h) ==
    (IF RequestMutex = h THEN {"RequestMutex"} ELSE {})
    \cup (IF TimestampMutex = h THEN {"TimestampMutex"} ELSE {})
    \cup (IF AcknowledgeMutex = h THEN {"AcknowledgeMutex"} ELSE {})
    \cup (IF FilesMutex = h THEN {"FilesMutex"} ELSE {})
    \cup {n \in DOMAIN Files : Files[n].Mutex = h}

\* The step in which h's Lock() of a mutex in the set L returns.
Acquires(h, L) == \E m \in L : m \notin Held(h) /\ m \in Held(h)'

\* RequestMutex and FilesMutex are outermost; the others nest inside them.
LockRank(m) == IF m \in {"RequestMutex", "FilesMutex"} THEN 1 ELSE 2

AllMutexes == {"RequestMutex", "FilesMutex", "TimestampMutex", "AcknowledgeMutex"} \cup FileNames

\* C16: a goroutine takes RequestMutex only while holding no mutex at all; it
\* takes a handle's Mutex only while holding nothing else than RequestMutex,
\* or nothing else than FilesMutex; whatever it takes ranks strictly inside
\* everything it already holds, so no cycle of waiting can form; and a
\* notifier holds no mutex other than AcknowledgeMutex.
C16_LockNesting ==
    /\ [][\A h \in Holders :
            /\ Acquires(h, {"RequestMutex"}) => Held(h) = {}
            /\ Acquires(h, FileNames) =>
                  Held(h) \subseteq {"RequestMutex"} \/ Held(h) \subseteq {"FilesMutex"}
            /\ \A m \in AllMutexes :
                  Acquires(h, {m}) => \A k \in Held(h) : LockRank(k) < LockRank(m)]_vars
    /\ [](\A t \in DOMAIN tasks : Held(Task(t)) \subseteq {"AcknowledgeMutex"})
    /\ [](\A c \in DOMAIN pc :
            pc[c] \in {"w_lock", "r_lock", "c_lock", "open", "done"} => Held(Cl(c)) = {})

\* A client holds RequestMutex and the handle's Mutex together while a
\* notifier holds AcknowledgeMutex.
C16_Witness ==
    \E c \in DOMAIN pc, t \in DOMAIN tasks :
        /\ Held(Cl(c)) = {"RequestMutex", handle[c]}
        /\ Held(Task(t)) = {"AcknowledgeMutex"}

-----------------------------------------------------------------------------
(* The gate of the timestamped variant *)

\* C17: with the gate made of NumClients slots and client ids 1 .. NumClients,
\* slot 0 is false in every reachable state; hence no poll ever reports
\* success, no step resets the array (a change of the array is a notifier
\* setting the slot of its target), its length stays NumClients, and every
\* SendRequest for client NumClients reports an invalid id and stores nothing.
C17_SlotZeroNeverSet ==
    /\ [](/\ Len(Acknowledged) = NumClients
          /\ Acknowledged[1] = FALSE
          /\ ~AllTrue(Acknowledged)
          /\ stdout.allAcknowledged = 0)
    /\ [][/\ \A c \in Clients : PollStep(c) => ~PollSucceeds /\ Acknowledged' = Acknowledged
          /\ Acknowledged' # Acknowledged =>
                \E t \in Clients :
                    /\ SendRequestStep(t) /\ t < NumClients
                    /\ Acknowledged' = [Acknowledged EXCEPT ![t + 1] = TRUE]
          /\ SendRequestStep(NumClients) =>
                /\ stdout'.invalid = stdout.invalid + 1
                /\ Acknowledged' = Acknowledged]_vars

\* Every slot but slot 0 is set, a notice for client NumClients has been
\* refused, and a client that has polled is about to poll again.
C17_Witness ==
    /\ \A i \in 2 .. NumClients : Acknowledged[i]
    /\ stdout.invalid >= 1
    /\ \E c \in Clients : pc[c] \in {"w_ack", "r_ack"} /\ polls[c] >= 1

-----------------------------------------------------------------------------
(* Audit log and deferred-operation list *)

\* Every step that changes the audit log or the deferred list appends one
\* element and is taken by the holder of RequestMutex.
AppendedUnderRequestMutex ==
    /\ LogFile' # LogFile =>
          /\ \E c \in DOMAIN pc : RequestMutex = Cl(c) /\ pc'[c] # pc[c]
          /\ Len(LogFile') = Len(LogFile) + 1 /\ IsPrefix(LogFile, LogFile')
    /\ DeferredArray' # DeferredArray =>
          /\ \E c \in DOMAIN pc : RequestMutex = Cl(c) /\ pc'[c] # pc[c]
          /\ Len(DeferredArray') = Len(DeferredArray) + 1
          /\ IsPrefix(DeferredArray, DeferredArray')

LogIncreasing ==
    \A i, j \in 1 .. Len(LogFile) : i < j => LogFile[i].Timestamp < LogFile[j].Timestamp

\* The k-th label names the client and the action of the k-th audit entry.
LabelsMatch ==
    \A k \in 1 .. Len(DeferredArray) :
        /\ k <= Len(LogFile)
        /\ DeferredArray[k].ClientID = LogFile[k].ClientID
        /\ DeferredArray[k].Action = LogFile[k].Action

\* C18 as stated: audit entries and labels are appended only under
\* RequestMutex, the audit log is in strictly increasing timestamp order, and
\* in every reachable state the deferred list is as long as the audit log,
\* label by label naming the client and action of the audit entry.
C18_DeferredAlignedEverywhere ==
    /\ [][AppendedUnderRequestMutex]_vars
    /\ [](LogIncreasing /\ LabelsMatch /\ Len(DeferredArray) = Len(LogFile))

\* C18 amended: as above, except that the two lists have the same length
\* whenever RequestMutex is free; while it is held the deferred list is the
\* same length or one label short, and it is short only while the holder is
\* between its LogRequest and its AddDeferredOperation.
C18_DeferredAligned ==
    /\ [][AppendedUnderRequestMutex]_vars
    /\ [](/\ LogIncreasing
          /\ LabelsMatch
          /\ RequestMutex = Free => Len(DeferredArray) = Len(LogFile)
          /\ Len(DeferredArray) # Len(LogFile) =>
                /\ Len(LogFile) = Len(DeferredArray) + 1
                /\ \E c \in DOMAIN pc :
                      RequestMutex = Cl(c) /\ pc[c] \in {"w_defer", "r_defer"})

\* A ReadFile has written its audit entry after three complete calls and
\* has not added its label yet.
C18_Witness ==
    /\ Len(LogFile) = 4
    /\ Len(DeferredArray) = 3
    /\ \E c \in DOMAIN pc : pc[c] = "r_defer"
    /\ \E i, j \in 1 .. Len(LogFile) : LogFile[i].ClientID # LogFile[j].ClientID

-----------------------------------------------------------------------------
(* What a ReadFile observes *)

\* The returned WriteFile calls with a timestamp below ts.
WritesBelow(ts) == {j \in Indices(returns, IsWrite) : returns[j].Timestamp < ts}

\* The one of them with the largest timestamp.
LatestWriteBelow(ts) ==
    CHOOSE j \in WritesBelow(ts) :
        \A k \in WritesBelow(ts) : returns[k].Timestamp <= returns[j].Timestamp

\* The content a ReadFile with timestamp ts is to observe.
ExpectedRead(ts, content) ==
    /\ WritesBelow(ts) # {}
    /\ content = returns[LatestWriteBelow(ts)].Content
    /\ content # InitialContent

\* C19: no step taken while a ReadFile holds RequestMutex changes the
\* Content of any handle; the content a ReadFile has observed, in progress or
\* returned, is the content argument of the WriteFile call with the largest
\* timestamp below the ReadFile's own, whether or not that call's save
\* succeeded; such a WriteFile always exists and the observed content is
\* never the initially loaded one.
C19_ReadObservesLatestWrite ==
    /\ [][(\E c \in DOMAIN pc : pc[c] \in ReadBody) =>
             \A n \in DOMAIN Files : Files'[n].Content = Files[n].Content]_vars
    /\ [](\A i \in Indices(returns, IsRead) :
             ExpectedRead(returns[i].Timestamp, returns[i].Content))
    /\ [](\A c \in DOMAIN pc :
             pc[c] \in {"r_log", "r_defer", "r_ret"} =>
                 /\ ExpectedRead(timestamp[c], observed[c])
                 /\ observed[c] = Files[handle[c]].Content)

\* A ReadFile has returned the content of another client's WriteFile whose
\* save had failed, after its own WriteFile had succeeded earlier.
C19_Witness ==
    \E i \in Indices(returns, IsRead) :
        /\ WritesBelow(returns[i].Timestamp) # {}
        /\ LET j == LatestWriteBelow(returns[i].Timestamp) IN
             /\ ~returns[j].Ok
             /\ returns[j].ClientID # returns[i].ClientID
             /\ returns[i].Content = returns[j].Content
        /\ \E k \in WritesBelow(returns[i].Timestamp) :
             returns[k].ClientID = returns[i].ClientID /\ returns[k].Ok

-----------------------------------------------------------------------------
(* The IsOpen flag of a shared handle *)

\* The client is between the call of WriteFile and the return of ReadFile.
InCall(c) == pc[c] \in {"w_lock", "r_lock"} \cup WriteBody \cup ReadBody

\* The client's CloseFile has returned.
Closed(c) == pc[c] = "done" /\ handle[c] # NoHandle

Finished == \A c \in DOMAIN pc : pc[c] = "done"

\* C20 as stated: whenever a client is executing WriteFile or ReadFile its
\* handle's IsOpen flag is true, whatever the other clients open and close;
\* and once every client has finished, IsOpen is false.
C20_OpenWhileInUse ==
    /\ \A c \in DOMAIN pc : InCall(c) => Files[handle[c]].IsOpen
    /\ Finished => \A n \in DOMAIN Files : ~Files[n].IsOpen

\* C20 amended: while a client is executing WriteFile or ReadFile, IsOpen is
\* true unless another client of the same handle has returned from CloseFile;
\* the flag is false only when some client has closed the handle; and once
\* every client has finished, IsOpen is false.
C20_OpenUntilSomeoneCloses ==
    /\ \A c \in DOMAIN pc :
          InCall(c) /\ ~Files[handle[c]].IsOpen =>
              \E d \in DOMAIN pc : d # c /\ Closed(d) /\ handle[d] = handle[c]
    /\ \A n \in DOMAIN Files :
          ~Files[n].IsOpen => \E d \in DOMAIN pc : Closed(d) /\ handle[d] = n
    /\ Finished => \A n \in DOMAIN Files : ~Files[n].IsOpen

\* A client is writing the content of a handle that another client has
\* already closed.
C20_Witness ==
    \E c \in DOMAIN pc, d \in DOMAIN pc :
        /\ pc[c] = "w_set"
        /\ ~Files[handle[c]].IsOpen
        /\ d # c /\ Closed(d) /\ handle[d] = handle[c]

====
